---- MODULE Spec2Model ----
(***************************************************************************)
(* A model of the KPI dashboard script src/app.py.                         *)
(*                                                                         *)
(* The script is re-run from top to bottom on every interaction, so the   *)
(* model has one action per interaction (upload, removal, plain re-run,   *)
(* one per selector) and every action runs the whole script (Script).     *)
(*                                                                         *)
(* Encoding of values.  A cell is <<>> when it is missing (NaN) and <<v>>  *)
(* when it holds v.  Numbers are integers (every sum is exact); the text  *)
(* of an object column is written as its rank in the sort order of the    *)
(* labels, so that "sorted by key" is "sorted by rank".  What is          *)
(* rendered is a sequence of elements <<kind, label, payload>>.           *)
(***************************************************************************)
EXTENDS Integers, Sequences, FiniteSets, TLC

VARIABLES
    disk,           \* the spreadsheets the user can upload: name -> content
    uploaded_file,  \* the file uploader's value: NoFile or a name of disk
    widgets,        \* the session's widget state (multiselect, selectboxes)
    cache,          \* st.cache_data of load_excel_data: name -> parsed table
    parses,         \* name -> number of calls of pd.read_excel on it so far
    df,             \* the table the last run worked on (NoTable if none)
    out             \* the elements the last run rendered, in order

vars == <<disk, uploaded_file, widgets, cache, parses, df, out>>

----------------------------------------------------------------------------
(* Program constants *)

ROW_LIMIT == 10000
PREVIEW_ROWS == 10
KPI_DEFAULT == 4
BAR_LIMIT == 20
LINE_LIMIT == 50
TOP_N == 10
NBINS == 20

(* Bounds of the model *)

MaxParses == 2
MaxRows == 3
MaxVal == 2
PieGroups == 11

----------------------------------------------------------------------------
(* Values, columns, tables *)

NaN == <<>>
NoFile == "None"
NoTable == [columns |-> <<>>, data |-> <<>>, raises |-> {}, none |-> TRUE]

Min(a, b) == IF a <= b THEN a ELSE b
Range(s) == {s[i] : i \in DOMAIN s}

El(kind, label, payload) == <<kind, label, payload>>
Kinds(o) == [i \in DOMAIN o |-> o[i][1]]
Labels(o) == [i \in DOMAIN o |-> o[i][2]]

\* s[:k]
Take(s, k) == IF Len(s) <= k THEN s ELSE SubSeq(s, 1, k)

\* len(df)
NRows(t) == IF t.columns = <<>> THEN 0 ELSE Len(t.data[t.columns[1].name])

\* df.head(k)
DfHead(t, k) == [t EXCEPT !.data = [c \in DOMAIN t.data |-> Take(t.data[c], k)]]

ColumnNames(t) == [i \in DOMAIN t.columns |-> t.columns[i].name]

\* Faulty variant: truth values pass for numbers
IsNumberOrBool(dtype) == dtype \in {"int64", "float64", "bool"}

\* np.number
IsNumber(dtype) == dtype \in {"int64", "float64"}
IsObject(dtype) == dtype = "object"

\* df.select_dtypes(include=...).columns.tolist(): the columns of the wanted
\* dtypes, in the table's column order
SelectDtypes(t, include) ==
    LET Wanted(c) == IF include = "number" THEN IsNumber(c.dtype)
                     ELSE IsObject(c.dtype)
        keep == SelectSeq(t.columns, Wanted)
    IN  [i \in DOMAIN keep |-> keep[i].name]

\* pd.read_excel: the table, or an exception when the bytes are no spreadsheet
ReadExcel(content) ==
    IF content.ok
    THEN [raised |-> FALSE, table |-> content.table]
    ELSE [raised |-> TRUE, table |-> NoTable]

\* A library call of the given step on the given column raises for this table
\* (no builder validates its input: the library's own error propagates).
Raises(t, step, col) == <<step, col>> \in t.raises

----------------------------------------------------------------------------
(* Aggregator *)

\* Series.sum(), skipna: missing cells count as 0
RECURSIVE SumRange(_, _, _)
SumRange(s, lo, hi) ==
    IF lo > hi THEN 0
    ELSE IF lo = hi THEN (IF s[lo] = NaN THEN 0 ELSE s[lo][1])
    ELSE LET mid == (lo + hi) \div 2
         IN  SumRange(s, lo, mid) + SumRange(s, mid + 1, hi)

SeriesSum(s) == SumRange(s, 1, Len(s))

\* Faulty variant: the missing cells are counted too
SeriesCountAll(s) == Len(s)

\* Series.count(): the number of non-missing cells
SeriesCount(s) == Cardinality({i \in DOMAIN s : s[i] # NaN})

\* Series.mean(), skipna: <<sum, count>> standing for sum / count, NaN when
\* nothing is left to average
SeriesMean(s) ==
    LET c == SeriesCount(s)
    IN  IF c = 0 THEN NaN ELSE <<SeriesSum(s), c>>

\* format(num / den, ".2f"): the number of hundredths nearest to num / den,
\* an exact tie going to the even neighbour (den > 0)
Fixed2(num, den) ==
    LET q == (100 * num) \div den
        r == (100 * num) % den
    IN  IF 2 * r < den THEN q
        ELSE IF 2 * r > den THEN q + 1
        ELSE IF q % 2 = 0 THEN q ELSE q + 1

\* f"{total_value:,.2f}"
FormatTotal(total) == <<Fixed2(total, 1)>>

\* f"Avg: {avg_value:.2f}": "nan" is written <<>>
FormatAvg(avg) == IF avg = NaN THEN NaN ELSE <<Fixed2(avg[1], avg[2])>>

\* The column's non-missing values
Values(s) == {s[i][1] : i \in {j \in DOMAIN s : s[j] # NaN}}

\* Series.value_counts(): the pairs <<value, number of cells holding it>>
ValueCounts(s) == {<<v, Cardinality({i \in DOMAIN s : s[i] = <<v>>})>> : v \in Values(s)}

\* The ascending sequence of a finite set of integers
RECURSIVE SortedSeq(_)
SortedSeq(S) ==
    IF S = {} THEN <<>>
    ELSE LET m == CHOOSE x \in S : \A y \in S : x <= y
         IN  <<m>> \o SortedSeq(S \ {m})

\* df.groupby(cat_col)[val_col].sum().reset_index(): one row <<key, sum>> per
\* distinct non-missing key (dropna), in ascending key order (sort), the sum
\* skipping the missing values of the group
GroupBySum(t, cat_col, val_col) ==
    LET keys == t.data[cat_col]
        vals == t.data[val_col]
        order == SortedSeq(Values(keys))
        member(k) == [i \in DOMAIN vals |-> IF keys[i] = <<k>> THEN vals[i] ELSE NaN]
    IN  [g \in DOMAIN order |-> <<order[g], SeriesSum(member(order[g]))>>]

\* Faulty variant: the latest row among equal values (keep="last")
LastLargest(rows, left) ==
    CHOOSE i \in left : \A j \in left :
        \/ rows[i][2] > rows[j][2]
        \/ rows[i][2] = rows[j][2] /\ i >= j

\* The position of the row to take next: the largest value, the earliest row
\* among equal values (keep="first")
FirstLargest(rows, left) ==
    CHOOSE i \in left : \A j \in left :
        \/ rows[i][2] > rows[j][2]
        \/ rows[i][2] = rows[j][2] /\ i <= j

RECURSIVE NLargestFrom(_, _, _)
NLargestFrom(rows, left, n) ==
    IF n = 0 \/ left = {} THEN <<>>
    ELSE LET i == FirstLargest(rows, left)
         IN  <<rows[i]>> \o NLargestFrom(rows, left \ {i}, n - 1)

\* pie_data.nlargest(n, val_col): the n rows of largest value, by descending
\* value
NLargest(rows, n) == NLargestFrom(rows, DOMAIN rows, n)

\* Over the value counts: the number of values, their sum, the sum of their
\* squares
RECURSIVE CountOf(_)
CountOf(vc) ==
    IF vc = {} THEN 0
    ELSE LET p == CHOOSE x \in vc : TRUE IN p[2] + CountOf(vc \ {p})

RECURSIVE SumOf(_)
SumOf(vc) ==
    IF vc = {} THEN 0
    ELSE LET p == CHOOSE x \in vc : TRUE IN p[1] * p[2] + SumOf(vc \ {p})

RECURSIVE SumSqOf(_)
SumSqOf(vc) ==
    IF vc = {} THEN 0
    ELSE LET p == CHOOSE x \in vc : TRUE IN p[1] * p[1] * p[2] + SumSqOf(vc \ {p})

\* The k-th smallest of the non-missing values (k from 1)
OrderStat(vc, k) ==
    CHOOSE v \in {p[1] : p \in vc} :
        /\ CountOf({p \in vc : p[1] <= v}) >= k
        /\ CountOf({p \in vc : p[1] < v}) < k

\* Series.quantile(k / 4), linear interpolation, as <<numerator, 4>>
Quartile(vc, count, k) ==
    LET lo == ((count - 1) * k) \div 4
        r == ((count - 1) * k) % 4
    IN  IF r = 0 THEN <<4 * OrderStat(vc, lo + 1), 4>>
        ELSE <<(4 - r) * OrderStat(vc, lo + 1) + r * OrderStat(vc, lo + 2), 4>>

\* One column of df.describe(): count, mean, std, min, 25%, 50%, 75%, max.
\* A ratio is written <<numerator, denominator>>; std is given by its square,
\* the unbiased variance.
DescribeSeries(s) ==
    LET vc == ValueCounts(s)
        count == CountOf(vc)
        sum == SumOf(vc)
        sumsq == SumSqOf(vc)
    IN  IF count = 0
        THEN <<0, NaN, NaN, NaN, NaN, NaN, NaN, NaN>>
        ELSE << count,
                <<sum, count>>,
                IF count = 1 THEN NaN
                ELSE <<count * sumsq - sum * sum, count * (count - 1)>>,
                <<OrderStat(vc, 1)>>,
                Quartile(vc, count, 1),
                Quartile(vc, count, 2),
                Quartile(vc, count, 3),
                <<OrderStat(vc, count)>> >>

\* df[numeric_columns].describe()
Describe(t, numeric_columns) ==
    [i \in DOMAIN numeric_columns |->
        <<numeric_columns[i], DescribeSeries(t.data[numeric_columns[i]])>>]

----------------------------------------------------------------------------
(* Chart builders *)

\* Faulty variant: the last rows instead of the first
create_bar_chart_tail(t, column) ==
    LET s == t.data[column]
    IN  <<column, IF Len(s) <= BAR_LIMIT THEN s
                  ELSE SubSeq(s, Len(s) - BAR_LIMIT + 1, Len(s))>>

\* create_bar_chart(df, column, limit=20)
create_bar_chart(t, column) == <<column, Take(t.data[column], BAR_LIMIT)>>

\* create_line_chart(df, column, limit=50)
create_line_chart(t, column) == <<column, Take(t.data[column], LINE_LIMIT)>>

\* create_histogram(df, column)
create_histogram(t, column) == <<column, t.data[column], NBINS>>

\* create_pie_chart(df, cat_col, val_col)
create_pie_chart(t, cat_col, val_col) ==
    <<cat_col, val_col, NLargest(GroupBySum(t, cat_col, val_col), TOP_N)>>

----------------------------------------------------------------------------
(* Widgets: the session keeps a widget's value while the widget is rendered
   with the same options; a widget a run does not render is forgotten. *)

WidgetKeys == {"kpi", "bar", "line", "hist", "pie_cat", "pie_val"}

Unset == [set |-> FALSE, opts |-> <<>>, val |-> <<>>]
Widget(opts, val) == [set |-> TRUE, opts |-> opts, val |-> val]
NoWidgets == [k \in WidgetKeys |-> Unset]

\* What the widget returns in this run
WidgetValue(w, opts, default) == IF w.set /\ w.opts = opts THEN w.val ELSE default

\* default=numeric_columns[:4] if len(numeric_columns) >= 4 else numeric_columns
KpiDefault(numeric_columns) ==
    IF Len(numeric_columns) >= KPI_DEFAULT
    THEN Take(numeric_columns, KPI_DEFAULT)
    ELSE numeric_columns

\* st.selectbox without index: the first option
SelectboxDefault(opts) == <<opts[1]>>

\* "if bar_col:" and the like: a column label is true unless it is empty
Truthy(label) == label # ""

----------------------------------------------------------------------------
(* The script, in stages.  A stage gives the elements it rendered, whether it
   raised, and the widgets it rendered. *)

Stage(o, raised, shown) == [out |-> o, raised |-> raised, shown |-> shown]
Quiet(o) == Stage(o, FALSE, <<>>)

\* Faulty variant: b runs whether a raised or not
ThenRegardless(a, b) ==
    Stage(a.out \o b.out, a.raised \/ b.raised, a.shown @@ b.shown)

\* Run b after a, unless a raised
Then(a, b) ==
    IF a.raised THEN a
    ELSE Stage(a.out \o b.out, b.raised, a.shown @@ b.shown)

Header ==
    << El("title", "KPI Dashboard", <<>>),
       El("markdown", "Upload your Excel file", <<>>),
       El("file_uploader", "Choose an Excel file", <<>>) >>

Instructions ==
    << El("info", "Please upload an Excel file to get started", <<>>),
       El("markdown", "Instructions", <<>>) >>

\* except Exception as e: st.error(...), st.info(...)
ErrorReport ==
    << El("error", "Error reading the Excel file", <<>>),
       El("info", "Please make sure your file is a valid Excel format", <<>>) >>

NoNumericWarning == El("warning", "No numeric columns found", <<>>)

\* The truncation block: the advisory and the table the run goes on with
Advisory(raw) ==
    IF NRows(raw) > ROW_LIMIT
    THEN <<El("warning", "Large dataset detected", <<NRows(raw)>>)>>
    ELSE <<>>

\* Faulty variant: the cut is off by one
TruncateShort(raw) == IF NRows(raw) > ROW_LIMIT THEN DfHead(raw, ROW_LIMIT - 1) ELSE raw

\* Faulty variant: no cut
TruncateNever(raw) == raw

Truncate(raw) == IF NRows(raw) > ROW_LIMIT THEN DfHead(raw, ROW_LIMIT) ELSE raw

\* From the success message to the "Configure Your KPIs" heading
Overview(t) ==
    Quiet(<< El("success", "File uploaded successfully", <<NRows(t), Len(t.columns)>>),
             El("dataframe", "Data Preview", DfHead(t, PREVIEW_ROWS).data),
             El("metric", "Total Rows", NRows(t)),
             El("metric", "Total Columns", Len(t.columns)),
             El("metric", "Numeric Columns", Len(SelectDtypes(t, "number"))),
             El("subheader", "Configure Your KPIs", <<>>) >>)

\* One KPI card
KpiCard(t, col) ==
    El("kpi", col, << FormatTotal(SeriesSum(t.data[col])),
                      FormatAvg(SeriesMean(t.data[col])) >>)

\* for i, col in enumerate(selected_kpi_cols): ...
RECURSIVE KpiCards(_, _, _)
KpiCards(t, sel, i) ==
    IF i > Len(sel) THEN Quiet(<<>>)
    ELSE IF Raises(t, "kpi", sel[i]) THEN Stage(<<>>, TRUE, <<>>)
    ELSE Then(Quiet(<<KpiCard(t, sel[i])>>), KpiCards(t, sel, i + 1))

KpiSection(t, numeric_columns, ws) ==
    LET sel == WidgetValue(ws.kpi, numeric_columns, KpiDefault(numeric_columns))
    IN  Then(Stage(<< El("subheader", "Key Performance Indicators", <<>>),
                      El("multiselect", "kpi", <<numeric_columns, sel>>) >>,
                   FALSE, [k \in {"kpi"} |-> Widget(numeric_columns, sel)]),
             IF sel # <<>> THEN KpiCards(t, sel, 1) ELSE Quiet(<<>>))

\* The value a selectbox returns in this run
SelectboxValue(ws, key, opts) == WidgetValue(ws[key], opts, SelectboxDefault(opts))

\* A selectbox over the numeric columns and the chart of the chosen column
ChartPanel(t, numeric_columns, ws, key, fig) ==
    IF Len(numeric_columns) >= 1
    THEN LET sel == SelectboxValue(ws, key, numeric_columns)
             col == sel[1]
         IN  Then(Stage(<<El("selectbox", key, <<numeric_columns, sel>>)>>,
                        FALSE, [k \in {key} |-> Widget(numeric_columns, sel)]),
                  IF ~Truthy(col) THEN Quiet(<<>>)
                  ELSE IF Raises(t, key, col) THEN Stage(<<>>, TRUE, <<>>)
                  ELSE Quiet(<<El("plotly_chart", key, fig)>>))
    ELSE Quiet(<<>>)

BarPanel(t, numeric_columns, ws) ==
    ChartPanel(t, numeric_columns, ws, "bar",
               create_bar_chart(t, SelectboxValue(ws, "bar", numeric_columns)[1]))

LinePanel(t, numeric_columns, ws) ==
    ChartPanel(t, numeric_columns, ws, "line",
               create_line_chart(t, SelectboxValue(ws, "line", numeric_columns)[1]))

HistPanel(t, numeric_columns, ws) ==
    ChartPanel(t, numeric_columns, ws, "hist",
               create_histogram(t, SelectboxValue(ws, "hist", numeric_columns)[1]))

PiePanel(t, numeric_columns, ws) ==
    LET categorical_cols == SelectDtypes(t, "object")
    IN  IF Len(categorical_cols) > 0 /\ Len(numeric_columns) > 0
        THEN LET cat == WidgetValue(ws.pie_cat, categorical_cols,
                                    SelectboxDefault(categorical_cols))
                 val == WidgetValue(ws.pie_val, numeric_columns,
                                    SelectboxDefault(numeric_columns))
             IN  Then(Stage(<< El("selectbox", "pie_cat", <<categorical_cols, cat>>),
                               El("selectbox", "pie_val", <<numeric_columns, val>>) >>,
                            FALSE,
                            [k \in {"pie_cat", "pie_val"} |->
                                IF k = "pie_cat" THEN Widget(categorical_cols, cat)
                                ELSE Widget(numeric_columns, val)]),
                      IF ~(Truthy(cat[1]) /\ Truthy(val[1])) THEN Quiet(<<>>)
                      ELSE IF Raises(t, "pie", cat[1]) \/ Raises(t, "pie", val[1])
                           THEN Stage(<<>>, TRUE, <<>>)
                      ELSE Quiet(<<El("plotly_chart", "pie",
                                      create_pie_chart(t, cat[1], val[1]))>>))
        ELSE Quiet(<<>>)

SummarySection(t, numeric_columns) ==
    Then(Quiet(<<El("subheader", "Summary Statistics", <<>>)>>),
         IF \E i \in DOMAIN numeric_columns : Raises(t, "describe", numeric_columns[i])
         THEN Stage(<<>>, TRUE, <<>>)
         ELSE Quiet(<<El("dataframe", "describe", Describe(t, numeric_columns))>>))

\* Faulty variant: the summary is rendered before the panels
NumericBranchSummaryFirst(t, numeric_columns, ws) ==
    Then(KpiSection(t, numeric_columns, ws),
    Then(SummarySection(t, numeric_columns),
    Then(Quiet(<<El("subheader", "Visualizations", <<>>)>>),
    Then(BarPanel(t, numeric_columns, ws),
    Then(LinePanel(t, numeric_columns, ws),
    Then(HistPanel(t, numeric_columns, ws),
         PiePanel(t, numeric_columns, ws)))))))

\* if len(numeric_columns) > 0: KPI cards, the four panels, the summary
NumericBranch(t, numeric_columns, ws) ==
    Then(KpiSection(t, numeric_columns, ws),
    Then(Quiet(<<El("subheader", "Visualizations", <<>>)>>),
    Then(BarPanel(t, numeric_columns, ws),
    Then(LinePanel(t, numeric_columns, ws),
    Then(HistPanel(t, numeric_columns, ws),
    Then(PiePanel(t, numeric_columns, ws),
         SummarySection(t, numeric_columns)))))))

\* Faulty variant: the warning is left out
NoNumericBranchSilent == Quiet(<<>>)

\* else: st.warning(...)
NoNumericBranch == Quiet(<<NoNumericWarning>>)

\* The body of the try block once the table is loaded and truncated
Dashboard(t, ws) ==
    LET numeric_columns == SelectDtypes(t, "number")
    IN  Then(Overview(t),
             IF Len(numeric_columns) > 0
             THEN NumericBranch(t, numeric_columns, ws)
             ELSE NoNumericBranch)

\* Faulty variant: no result is stored
load_excel_data_unstored(file, c, d) ==
    LET r == ReadExcel(d[file])
    IN  [raised |-> r.raised, table |-> r.table, called |-> TRUE, cache |-> c]

\* load_excel_data under st.cache_data: a stored result is returned without a
\* call; a result is stored only when the call returns (not when it raises)
load_excel_data(file, c, d) ==
    IF file \in DOMAIN c
    THEN [raised |-> FALSE, table |-> c[file], called |-> FALSE, cache |-> c]
    ELSE LET r == ReadExcel(d[file])
         IN  [raised |-> r.raised, table |-> r.table, called |-> TRUE,
              cache |-> IF r.raised THEN c ELSE c @@ (file :> r.table)]

\* One run of the script
Script(file, ws, c, d) ==
    IF file = NoFile
    THEN [out |-> Header \o Instructions, df |-> NoTable, widgets |-> NoWidgets,
          cache |-> c, called |-> FALSE]
    ELSE LET load == load_excel_data(file, c, d)
         IN  IF load.raised
             THEN [out |-> Header \o ErrorReport, df |-> NoTable,
                   widgets |-> NoWidgets, cache |-> load.cache, called |-> load.called]
             ELSE LET t == Truncate(load.table)
                      body == Dashboard(t, ws)
                  IN  [out |-> Header \o Advisory(load.table) \o body.out
                                \o (IF body.raised THEN ErrorReport ELSE <<>>),
                       df |-> t,
                       widgets |-> [k \in WidgetKeys |->
                                       IF k \in DOMAIN body.shown THEN body.shown[k]
                                       ELSE Unset],
                       cache |-> load.cache,
                       called |-> load.called]

----------------------------------------------------------------------------
(* The spreadsheets of the model.  A parsed column carries the dtype
   pd.read_excel infers: numbers without gaps are int64, numbers with gaps
   (or nothing but gaps) float64, text is object, dates datetime64[ns],
   truth values bool, and every column of a sheet without rows is object.
   The text of a cell is written as an integer code; codes are ordered as the
   strings they stand for. *)

Col(name, dtype) == [name |-> name, dtype |-> dtype]
Table(columns, data, raises) == [columns |-> columns, data |-> data, raises |-> raises]
Sheet(t) == [ok |-> TRUE, table |-> t]
NotASpreadsheet == [ok |-> FALSE, table |-> NoTable]

\* Two numeric, two text, one date and one truth-value column
Mixed ==
    Table(<< Col("x", "int64"), Col("c", "object"), Col("when", "datetime64[ns]"),
             Col("y", "float64"), Col("flag", "bool"), Col("d", "object") >>,
          [x |-> << <<1>>, <<2>>, <<2>> >>,
           c |-> << <<2>>, <<1>>, <<2>> >>,
           when |-> << <<3>>, <<1>>, <<2>> >>,
           y |-> << <<5>>, NaN, <<0>> >>,
           flag |-> << <<1>>, <<0>>, <<1>> >>,
           d |-> << <<1>>, NaN, <<1>> >>],
          {})

\* Text only
TextOnly ==
    Table(<<Col("c", "object"), Col("d", "object")>>,
          [c |-> << <<1>>, <<2>> >>, d |-> << NaN, <<1>> >>], {})

\* Dates and truth values only
DatesOnly ==
    Table(<<Col("when", "datetime64[ns]"), Col("flag", "bool")>>,
          [when |-> << <<1>>, <<2>> >>, flag |-> << <<0>>, <<1>> >>], {})

\* A sheet with nothing in it
EmptySheet == Table(<<>>, <<>>, {})

\* Numbers only
NumbersOnly ==
    Table(<<Col("x", "int64"), Col("when", "datetime64[ns]")>>,
          [x |-> << <<2>>, <<1>> >>, when |-> << <<1>>, <<2>> >>], {})

\* A sheet on which one library call raises
Failing(step, col) ==
    Table(<<Col("x", "float64"), Col("c", "object")>>,
          [x |-> << <<1>>, NaN, <<2>> >>, c |-> << <<1>>, <<2>>, <<1>> >>],
          {<<step, col>>})

Steps == {"kpi", "bar", "line", "hist", "pie", "describe"}

Catalogue ==
    {Mixed, TextOnly, DatesOnly, EmptySheet, NumbersOnly}
        \cup {Failing(step, "x") : step \in Steps}

\* The cell of row i in a generated column: a number in 0..2, with gaps
PatternCell(i, gapEvery, shift) ==
    IF i % gapEvery = 0 THEN NaN ELSE <<(i + shift + i \div 7) % 3>>

\* A sheet of n rows: two number columns, one text column
Rows(n) ==
    IF n = 0
    THEN Table(<<Col("x", "object"), Col("y", "object"), Col("c", "object")>>,
               [x |-> <<>>, y |-> <<>>, c |-> <<>>], {})
    ELSE Table(<<Col("x", "float64"), Col("y", "int64"), Col("c", "object")>>,
               [x |-> [i \in 1..n |-> PatternCell(i, 5, 0)],
                y |-> [i \in 1..n |-> <<(i * i) % 7>>],
                c |-> [i \in 1..n |-> <<1 + (i % 3)>>]], {})

\* A long sheet of n rows: one number column, one text column
Long(n) ==
    Table(<<Col("x", "float64"), Col("c", "object")>>,
          [x |-> [i \in 1..n |-> PatternCell(i, 11, 1)],
           c |-> [i \in 1..n |-> <<1 + ((i \div 3) % 2)>>]], {})

\* A long sheet of n rows of text
LongText(n) ==
    Table(<<Col("c", "object")>>, [c |-> [i \in 1..n |-> <<1 + (i % 2)>>]], {})

RowsFamily ==
    {Rows(n) : n \in {0, 1, PREVIEW_ROWS + 1,
                      BAR_LIMIT - 1, BAR_LIMIT, BAR_LIMIT + 1,
                      LINE_LIMIT - 1, LINE_LIMIT, LINE_LIMIT + 1}}
        \cup {Long(n) : n \in {ROW_LIMIT, ROW_LIMIT + 1, ROW_LIMIT + 2}}
        \cup {LongText(ROW_LIMIT), LongText(ROW_LIMIT + 1)}
        \cup {TextOnly, DatesOnly, EmptySheet}

\* Every sheet of 1..MaxRows rows with one number column of cells that are
\* missing or in -1..MaxVal, and one text column
KpiFamily ==
    {Table(<<Col("x", "float64"), Col("c", "object")>>,
           [x |-> xs, c |-> [i \in DOMAIN xs |-> <<1>>]], {}) :
        xs \in UNION {[1..n -> {NaN} \cup {<<v>> : v \in (-1)..MaxVal}] : n \in 1..MaxRows}}

\* Sheets of PieGroups labels, one row per label, met in ascending or in
\* descending order of the label, each with a value of 1 or 2 (the first
\* three and the last three labels take either value, the labels between
\* them alternate); with `more`, three further rows: a second row of label
\* 1, a row without label and a row without value
PieSheet(vals, descending, more) ==
    LET n == Len(vals)
        label(i) == IF descending THEN n + 1 - i ELSE i
    IN  Table(<<Col("g", "object"), Col("v", "float64")>>,
              [g |-> [i \in 1..n |-> <<label(i)>>]
                        \o (IF more THEN << <<1>>, NaN, <<2>> >> ELSE <<>>),
               v |-> [i \in 1..n |-> <<vals[label(i)]>>]
                        \o (IF more THEN << <<1>>, <<9>>, NaN >> ELSE <<>>)],
              {})

PieFamily ==
    {PieSheet(vals, descending, more) :
        vals \in {w \in [1..PieGroups -> {1, 2}] :
                     \A k \in 4..(PieGroups - 3) : w[k] = 1 + (k % 2)},
        descending \in BOOLEAN, more \in BOOLEAN}

----------------------------------------------------------------------------
(* The session *)

\* The orders in which the options of a multiselect can be picked
Arrangements(opts) ==
    {s \in UNION {[1..k -> Range(opts)] : k \in 0..Len(opts)} :
        \A i, j \in DOMAIN s : i # j => s[i] # s[j]}

\* The first run of a session: nothing uploaded, nothing cached
FirstRun(d) ==
    /\ disk = d
    /\ uploaded_file = NoFile
    /\ widgets = NoWidgets
    /\ cache = <<>>
    /\ parses = [f \in DOMAIN d |-> 0]
    /\ df = NoTable
    /\ out = Header \o Instructions

\* A session with an unreadable file and two sheets
Init ==
    \E a \in Catalogue :
        FirstRun([f \in {"bad.xlsx", "a.xlsx", "b.xlsx"} |->
                    CASE f = "bad.xlsx" -> NotASpreadsheet
                      [] f = "a.xlsx" -> Sheet(a)
                      [] f = "b.xlsx" -> Sheet(TextOnly)])

\* A session with one sheet of the given family
InitOf(family) == \E a \in family : FirstRun([f \in {"a.xlsx"} |-> Sheet(a)])

InitRows == InitOf(RowsFamily)
InitKpi == InitOf(KpiFamily)
InitPie == InitOf(PieFamily)

\* A run of the script with the given upload and widget state
Render(file, ws) ==
    \E r \in {Script(file, ws, cache, disk)} :
        /\ r.called => parses[file] < MaxParses
        /\ uploaded_file' = file
        /\ widgets' = r.widgets
        /\ cache' = r.cache
        /\ parses' = IF r.called THEN [parses EXCEPT ![file] = @ + 1] ELSE parses
        /\ df' = r.df
        /\ out' = r.out
        /\ UNCHANGED disk

UploadFile(f) == Render(f, widgets)

RemoveFile ==
    /\ uploaded_file # NoFile
    /\ Render(NoFile, widgets)

Rerun == Render(uploaded_file, widgets)

SelectKpi(sel) ==
    /\ widgets.kpi.set
    /\ sel \in Arrangements(widgets.kpi.opts)
    /\ Render(uploaded_file, [widgets EXCEPT !.kpi.val = sel])

Select(key, c) ==
    /\ widgets[key].set
    /\ c \in Range(widgets[key].opts)
    /\ Render(uploaded_file, [widgets EXCEPT ![key].val = <<c>>])

SelectBar(c) == Select("bar", c)
SelectLine(c) == Select("line", c)
SelectHist(c) == Select("hist", c)
SelectPieCat(c) == Select("pie_cat", c)
SelectPieVal(c) == Select("pie_val", c)

ColumnLabels == {"x", "y", "c", "d", "g", "v"}

Next ==
    \/ \E f \in DOMAIN disk : UploadFile(f)
    \/ RemoveFile
    \/ Rerun
    \/ \E sel \in Arrangements(widgets.kpi.opts) : SelectKpi(sel)
    \/ \E c \in ColumnLabels : SelectBar(c)
    \/ \E c \in ColumnLabels : SelectLine(c)
    \/ \E c \in ColumnLabels : SelectHist(c)
    \/ \E c \in ColumnLabels : SelectPieCat(c)
    \/ \E c \in ColumnLabels : SelectPieVal(c)

Spec == Init /\ [][Next]_vars
SpecRows == InitRows /\ [][Next]_vars
SpecKpi == InitKpi /\ [][Next]_vars
SpecPie == InitPie /\ [][Next]_vars

----------------------------------------------------------------------------
(* What the claims speak of *)

Uploaded == uploaded_file # NoFile

\* The upload is a spreadsheet: ingestion succeeds
Parsed == Uploaded /\ disk[uploaded_file].ok

\* The rows and columns of the uploaded spreadsheet
Input == disk[uploaded_file].table

Shown(kind, label) == \E i \in DOMAIN out : out[i][1] = kind /\ out[i][2] = label

Payloads(kind, label) ==
    {out[i][3] : i \in {j \in DOMAIN out : out[j][1] = kind /\ out[j][2] = label}}

NumericInput == {c \in Range(Input.columns) : c.dtype \in {"int64", "float64"}}

----------------------------------------------------------------------------
\* C1: after a successful parse of n rows the run's table holds the first
\* min(n, 10000) rows in input order, "Total Rows" shows that number, and the
\* truncation advisory is shown exactly when n > 10000.
C1_RowLimit ==
    Parsed =>
        LET n == NRows(Input)
            m == IF n <= ROW_LIMIT THEN n ELSE ROW_LIMIT
        IN  /\ df.columns = Input.columns
            /\ NRows(df) = m
            /\ \A c \in DOMAIN Input.data :
                   /\ Len(df.data[c]) = m
                   /\ \A i \in 1..m : df.data[c][i] = Input.data[c][i]
            /\ Payloads("metric", "Total Rows") = {m}
            /\ Shown("warning", "Large dataset detected") <=> n > ROW_LIMIT

C1_Witness ==
    /\ Parsed
    /\ NRows(Input) = ROW_LIMIT + 2
    /\ NRows(df) = ROW_LIMIT
    /\ Payloads("metric", "Total Rows") = {ROW_LIMIT}
    /\ Payloads("warning", "Large dataset detected") = {<<ROW_LIMIT + 2>>}

----------------------------------------------------------------------------
\* C9: the bar chart holds the first min(20, n) rows of the chosen column in
\* table order, one bar per row; the line chart the first min(50, n) rows; the
\* histogram all n rows of its column.

\* The chart of the panel, drawn for the column its selector shows
ChartOf(key) == CHOOSE p \in Payloads("plotly_chart", key) : TRUE

\* s holds exactly the first min(limit, n) cells of the column, in order
FirstRowsOf(s, column, limit) ==
    /\ Len(s) = (IF NRows(df) <= limit THEN NRows(df) ELSE limit)
    /\ \A i \in DOMAIN s : s[i] = df.data[column][i]

C9_ChartRows ==
    Parsed /\ NumericInput # {} =>
        /\ \A key \in {"bar", "line", "hist"} :
               /\ Cardinality(Payloads("plotly_chart", key)) = 1
               /\ ChartOf(key)[1] = widgets[key].val[1]
        /\ FirstRowsOf(ChartOf("bar")[2], ChartOf("bar")[1], BAR_LIMIT)
        /\ FirstRowsOf(ChartOf("line")[2], ChartOf("line")[1], LINE_LIMIT)
        /\ FirstRowsOf(ChartOf("hist")[2], ChartOf("hist")[1], NRows(df))

\* A table longer than both limits, the bar chart not in order of value
C9_Witness ==
    /\ Parsed /\ NumericInput # {}
    /\ NRows(df) = LINE_LIMIT + 1
    /\ Len(ChartOf("bar")[2]) = BAR_LIMIT
    /\ Len(ChartOf("line")[2]) = LINE_LIMIT
    /\ Len(ChartOf("hist")[2]) = LINE_LIMIT + 1
    /\ ChartOf("bar")[1] = "y"
    /\ \E i \in 1..(BAR_LIMIT - 1) :
           ChartOf("bar")[2][i][1] > ChartOf("bar")[2][i + 1][1]
    /\ \E i \in 1..(BAR_LIMIT - 1) :
           ChartOf("bar")[2][i][1] < ChartOf("bar")[2][i + 1][1]

----------------------------------------------------------------------------
\* C10: two uploads with the same columns and the same first 10000 rows, both
\* longer than 10000 rows, render the same under the same widget state, but
\* for the row count quoted in the truncation advisory.

\* The sheet t with its rows after the first ROW_LIMIT replaced by k rows of v
Retail(t, k, v) ==
    [t EXCEPT !.data = [c \in DOMAIN t.data |->
                           Take(t.data[c], ROW_LIMIT) \o [i \in 1..k |-> <<v>>]]]

\* The output without the number the advisory quotes
Redact(o) ==
    [i \in DOMAIN o |->
        IF o[i][1] = "warning" /\ o[i][2] = "Large dataset detected"
        THEN El(o[i][1], o[i][2], <<>>)
        ELSE o[i]]

\* What a first run on the sheet renders under the current widget state
FreshOutput(t) ==
    Script(uploaded_file, widgets, <<>>,
           [f \in {uploaded_file} |-> Sheet(t)]).out

----------------------------------------------------------------------------
\* C4 (as amended): a table without numeric columns renders no KPI cards, no
\* chart panel and no summary table, and it renders the "no numeric columns"
\* warning; the only other warning there can be is the truncation advisory,
\* shown when the upload has more than 10000 rows.  The "no numeric columns"
\* warning is never shown when a numeric column exists.

WarningLabels == {out[i][2] : i \in {j \in DOMAIN out : out[j][1] = "warning"}}

NoKpiNoCharts ==
    /\ ~Shown("subheader", "Key Performance Indicators")
    /\ ~Shown("subheader", "Visualizations")
    /\ ~Shown("subheader", "Summary Statistics")
    /\ \A i \in DOMAIN out :
           out[i][1] \notin {"kpi", "multiselect", "selectbox", "plotly_chart"}
    /\ ~Shown("dataframe", "describe")

C4_NoNumeric ==
    /\ Parsed /\ NumericInput = {} =>
           /\ NoKpiNoCharts
           /\ WarningLabels =
                  {"No numeric columns found"}
                      \cup (IF NRows(Input) > ROW_LIMIT
                            THEN {"Large dataset detected"} ELSE {})
    /\ "No numeric columns found" \in WarningLabels =>
           Parsed /\ NumericInput = {}

C4_Witness ==
    /\ Parsed /\ NumericInput = {}
    /\ NRows(Input) > ROW_LIMIT
    /\ WarningLabels = {"No numeric columns found", "Large dataset detected"}

\* C4 (as claimed): ... and no other warning.
C4_Original ==
    /\ Parsed /\ NumericInput = {} =>
           /\ NoKpiNoCharts
           /\ WarningLabels = {"No numeric columns found"}
    /\ "No numeric columns found" \in WarningLabels =>
           Parsed /\ NumericInput = {}

----------------------------------------------------------------------------
\* C2 (as amended): for every selected KPI column the displayed total is the
\* sum of the column's non-missing values and the displayed average is their
\* mean rounded to two decimals ("nan" when every value is missing); missing
\* values count in neither; both are the same for every order of the rows.

\* The columns selected for KPI cards
SelectedKpis == Range(widgets.kpi.val)

\* The card of the column: <<total, average>>, each <<hundredths>> or "nan"
CardOf(o, col) ==
    CHOOSE p \in {o[i][3] : i \in {j \in DOMAIN o : o[j][1] = "kpi" /\ o[j][2] = col}} :
        TRUE

\* The exact sum and the number of the non-missing values of a column
ExactSum(s) == SumOf(ValueCounts(s))
ExactCount(s) == CountOf(ValueCounts(s))

Abs(k) == IF k < 0 THEN -k ELSE k

\* The sheet with its rows in the order p[1], p[2], ...
Permuted(t, p) ==
    [t EXCEPT !.data = [c \in DOMAIN t.data |->
                           [i \in DOMAIN p |-> t.data[c][p[i]]]]]

RowOrders(n) ==
    {p \in [1..n -> 1..n] : \A i, j \in 1..n : i # j => p[i] # p[j]}

\* The cards do not depend on the order of the rows
OrderFree(col) ==
    \A p \in RowOrders(NRows(Input)) :
        CardOf(FreshOutput(Permuted(Input, p)), col) = CardOf(out, col)

C2_KpiCards ==
    Parsed =>
        \A col \in SelectedKpis :
            LET s == Input.data[col]
                n == ExactCount(s)
                card == CardOf(out, col)
            IN  /\ Cardinality(Payloads("kpi", col)) = 1
                /\ card[1] = <<100 * ExactSum(s)>>
                /\ n = 0 => card[2] = NaN
                /\ n > 0 =>
                       /\ card[2] # NaN
                       /\ 2 * Abs(100 * ExactSum(s) - card[2][1] * n) <= n
                /\ OrderFree(col)

\* A card of a column with a gap between two values: the mean is over two
C2_Witness ==
    /\ Parsed
    /\ "x" \in SelectedKpis
    /\ NRows(Input) = 3
    /\ Input.data["x"][2] = NaN
    /\ ExactCount(Input.data["x"]) = 2
    /\ ExactSum(Input.data["x"]) = 3
    /\ CardOf(out, "x") = << <<300>>, <<150>> >>
    /\ \E p \in RowOrders(NRows(Input)) : Permuted(Input, p) # Input

\* C2 (as claimed): the displayed average equals the mean.
C2_Original ==
    Parsed =>
        \A col \in SelectedKpis :
            LET s == Input.data[col]
                n == ExactCount(s)
                card == CardOf(out, col)
            IN  /\ Cardinality(Payloads("kpi", col)) = 1
                /\ card[1] = <<100 * ExactSum(s)>>
                /\ n > 0 =>
                       /\ card[2] # NaN
                       /\ card[2][1] * n = 100 * ExactSum(s)
                /\ OrderFree(col)

----------------------------------------------------------------------------
\* C3 (as amended): the pie chart shows one slice per group, at most 10, and
\* the groups shown are the 10 groups of largest sum (all of them when there
\* are fewer), a group of equal sum going before another when its label
\* sorts first.

\* The pie chart drawn: <<category column, value column, slices>>
PieOf(o) ==
    CHOOSE p \in {o[i][3] : i \in {j \in DOMAIN o :
                      o[j][1] = "plotly_chart" /\ o[j][2] = "pie"}} : TRUE

\* The groups of the table: the labels the category column holds
GroupsOf(cat) == Values(df.data[cat])

\* The sum of the value column over the rows of the group
GroupTotal(cat, val, g) ==
    ExactSum([i \in 1..NRows(df) |->
                 IF df.data[cat][i] = <<g>> THEN df.data[val][i] ELSE NaN])

\* The row in which the group is first met
FirstSeen(cat, g) ==
    CHOOSE i \in 1..NRows(df) :
        /\ df.data[cat][i] = <<g>>
        /\ \A j \in 1..(i - 1) : df.data[cat][j] # <<g>>

\* The slices are the groups of largest sum, Earlier deciding between groups
\* of equal sum
TopGroups(pie, Earlier(_, _, _)) ==
    LET cat == pie[1]
        val == pie[2]
        slices == pie[3]
        shown == {slices[i][1] : i \in DOMAIN slices}
        size == Cardinality(GroupsOf(cat))
    IN  /\ Len(slices) = (IF size <= TOP_N THEN size ELSE TOP_N)
        /\ Cardinality(shown) = Len(slices)
        /\ shown \subseteq GroupsOf(cat)
        /\ \A i \in DOMAIN slices :
               slices[i][2] = GroupTotal(cat, val, slices[i][1])
        /\ \A g \in shown : \A h \in GroupsOf(cat) \ shown :
               \/ GroupTotal(cat, val, g) > GroupTotal(cat, val, h)
               \/ /\ GroupTotal(cat, val, g) = GroupTotal(cat, val, h)
                  /\ Earlier(cat, g, h)

ByLabel(cat, g, h) == g < h
ByFirstSeen(cat, g, h) == FirstSeen(cat, g) < FirstSeen(cat, h)

PieDrawn == Cardinality(Payloads("plotly_chart", "pie")) = 1

C3_PieTop ==
    Parsed /\ widgets.pie_cat.set =>
        /\ PieDrawn
        /\ PieOf(out)[1] = widgets.pie_cat.val[1]
        /\ PieOf(out)[2] = widgets.pie_val.val[1]
        /\ TopGroups(PieOf(out), ByLabel)

\* More than 10 groups, met in descending order of label, and a group left
\* out whose sum equals that of a group shown
C3_Witness ==
    /\ Parsed /\ PieDrawn
    /\ Cardinality(GroupsOf("g")) > TOP_N
    /\ Len(PieOf(out)[3]) = TOP_N
    /\ NaN \in Range(df.data["g"])
    /\ \E g \in {PieOf(out)[3][i][1] : i \in 1..TOP_N} :
       \E h \in GroupsOf("g") \ {PieOf(out)[3][i][1] : i \in 1..TOP_N} :
           /\ GroupTotal("g", "v", g) = GroupTotal("g", "v", h)
           /\ FirstSeen("g", h) < FirstSeen("g", g)

\* C3 (as claimed): groups of equal sum are ranked by the order in which they
\* are first met in the table.
C3_Original ==
    Parsed /\ widgets.pie_cat.set =>
        /\ PieDrawn
        /\ PieOf(out)[1] = widgets.pie_cat.val[1]
        /\ PieOf(out)[2] = widgets.pie_val.val[1]
        /\ TopGroups(PieOf(out), ByFirstSeen)

----------------------------------------------------------------------------
\* C5: a failure raised while a file is present, by ingestion or by a later
\* step, ends the run with one error message and the format hint after what
\* was rendered before the failing step, and nothing of the failing step or
\* of a later one; no failure is remembered, and the run that follows with
\* another upload (or none) renders what that upload renders by itself.

ErrorsIn(o) == {i \in DOMAIN o : o[i][1] = "error"}

\* The call <<step, column>> is made in this run
Hit(h) ==
    LET step == h[1]
        col == h[2]
    IN  CASE step = "kpi" -> widgets.kpi.set /\ col \in Range(widgets.kpi.val)
          [] step \in {"bar", "line", "hist"} ->
                widgets[step].set /\ widgets[step].val = <<col>>
          [] step = "pie" ->
                /\ widgets.pie_cat.set
                /\ col \in {widgets.pie_cat.val[1], widgets.pie_val.val[1]}
          [] step = "describe" ->
                \E i \in DOMAIN df.columns :
                    df.columns[i].name = col /\ IsNumber(df.columns[i].dtype)

\* What the call would have rendered
Product(h) ==
    CASE h[1] = "kpi" -> <<"kpi", h[2]>>
      [] h[1] = "describe" -> <<"dataframe", "describe">>
      [] OTHER -> <<"plotly_chart", h[1]>>

\* What the run renders when no call on the uploaded sheet raises
Unfailing ==
    Script(uploaded_file, widgets, <<>>,
           [f \in {uploaded_file} |-> Sheet([Input EXCEPT !.raises = {}])]).out

CaughtAtTopLevel ==
    /\ Cardinality(ErrorsIn(out)) <= 1
    /\ ~Uploaded => ErrorsIn(out) = {}
    /\ Uploaded /\ ~Parsed => out = Header \o ErrorReport /\ df = NoTable
    /\ Parsed =>
           LET hits == {h \in Input.raises : Hit(h)}
           IN  IF hits = {} THEN ErrorsIn(out) = {}
               ELSE /\ \E k \in 0..(Len(Unfailing) - 1) :
                           out = Take(Unfailing, k) \o ErrorReport
                    /\ \A h \in hits : ~Shown(Product(h)[1], Product(h)[2])
    /\ \A f \in DOMAIN cache : disk[f].ok

\* The upload by itself: a run on an empty cache
Alone(file, ws) == Script(file, ws, <<>>, disk).out

FailureForgotten ==
    ErrorsIn(out) # {} /\ uploaded_file' # uploaded_file =>
        /\ out' = Alone(uploaded_file', widgets)
        /\ uploaded_file' = NoFile => out' = Header \o Instructions
        /\ uploaded_file' # NoFile /\ disk[uploaded_file'].ok
              /\ disk[uploaded_file'].table.raises = {} => ErrorsIn(out') = {}

----------------------------------------------------------------------------
\* C6 (as amended): the parser is called at most once for each upload it can
\* read: a run whose upload was read before takes the stored table without a
\* call, the stored table is the one a call would return, and a run with an
\* upload not read before calls the parser and goes on with its table.  (An
\* upload the parser rejects is not stored.)

ReadOnce ==
    /\ \A f \in DOMAIN disk :
           disk[f].ok => /\ parses[f] <= 1
                         /\ f \in DOMAIN cache <=> parses[f] = 1
    /\ \A f \in DOMAIN cache : cache[f] = ReadExcel(disk[f]).table
    /\ Parsed /\ NRows(Input) <= ROW_LIMIT => df = Input
    /\ ~Parsed => df = NoTable

Memoized ==
    /\ uploaded_file' \in DOMAIN cache => parses' = parses
    /\ uploaded_file' # NoFile /\ uploaded_file' \notin DOMAIN cache =>
           parses' = [parses EXCEPT ![uploaded_file'] = @ + 1]
    /\ \A f \in DOMAIN cache : f \in DOMAIN cache' /\ cache'[f] = cache[f]

C6_ParsedOnce == [](ReadOnce) /\ [][Memoized]_vars

\* The first sheet is on display again, after the second sheet was read and
\* after a change of the KPI selection, and was read once
C6_Witness ==
    /\ uploaded_file = "a.xlsx" /\ parses["a.xlsx"] = 1
    /\ parses["b.xlsx"] = 1
    /\ widgets.kpi.set /\ widgets.kpi.val = <<>>

\* C6 (as claimed): the parser is called at most once for each upload.
C6_Original == \A f \in DOMAIN disk : parses[f] <= 1

----------------------------------------------------------------------------
\* C7 (as amended): without an upload a run renders the instructions and does
\* nothing else; with an upload that ingestion accepts it renders the three
\* metrics, and, when there are numeric columns and no step fails, the KPI
\* cards of the current selection, then the bar, line and histogram panels,
\* then the pie panel if the table has a text column, then the summary
\* table; whatever is rendered comes in this order, and what a run renders is
\* decided by the upload and the widget selections alone.

\* The place of an element in the sequence of the claim, 0 when it has none
PlaceOf(e) ==
    CASE e[1] = "metric" /\ e[2] = "Total Rows" -> 1
      [] e[1] = "metric" /\ e[2] = "Total Columns" -> 2
      [] e[1] = "metric" /\ e[2] = "Numeric Columns" -> 3
      [] e[1] = "kpi" -> 4
      [] e[1] = "plotly_chart" /\ e[2] = "bar" -> 5
      [] e[1] = "plotly_chart" /\ e[2] = "line" -> 6
      [] e[1] = "plotly_chart" /\ e[2] = "hist" -> 7
      [] e[1] = "plotly_chart" /\ e[2] = "pie" -> 8
      [] e[1] = "dataframe" /\ e[2] = "describe" -> 9
      [] OTHER -> 0

IsCard(e) == e[1] = "kpi"

\* The columns of the KPI cards, in the order of the cards
CardColumns(o) == [i \in DOMAIN SelectSeq(o, IsCard) |-> SelectSeq(o, IsCard)[i][2]]

InSequence ==
    \A i, j \in DOMAIN out :
        i < j /\ PlaceOf(out[i]) # 0 /\ PlaceOf(out[j]) # 0 =>
            \/ PlaceOf(out[i]) < PlaceOf(out[j])
            \/ IsCard(out[i]) /\ IsCard(out[j]) /\ out[i][2] # out[j][2]

FixedSequence ==
    /\ ~Uploaded => out = Header \o Instructions /\ df = NoTable
    /\ InSequence
    /\ Parsed =>
           /\ df # NoTable
           /\ Payloads("metric", "Total Rows") = {NRows(df)}
           /\ Payloads("metric", "Total Columns") = {Len(df.columns)}
           /\ Payloads("metric", "Numeric Columns") = {Cardinality(NumericInput)}
    /\ Parsed /\ ErrorsIn(out) = {} /\ NumericInput # {} =>
           /\ widgets.kpi.set /\ CardColumns(out) = widgets.kpi.val
           /\ \A key \in {"bar", "line", "hist"} :
                  Cardinality(Payloads("plotly_chart", key)) = 1
           /\ Cardinality(Payloads("plotly_chart", "pie")) =
                  (IF \E c \in Range(df.columns) : c.dtype = "object" THEN 1 ELSE 0)
           /\ Cardinality(Payloads("dataframe", "describe")) = 1
    /\ Parsed /\ NumericInput = {} => \A i \in DOMAIN out : PlaceOf(out[i]) <= 3
    /\ out = Alone(uploaded_file, widgets)

Stateless ==
    /\ uploaded_file' = NoFile => parses' = parses /\ cache' = cache
    /\ uploaded_file' = uploaded_file /\ widgets' = widgets => out' = out

C7_RenderSequence == [](FixedSequence) /\ [][Stateless]_vars

\* Two KPI cards in an order the user chose, the four charts and the summary
C7_Witness ==
    /\ Parsed /\ ErrorsIn(out) = {}
    /\ widgets.kpi.val = <<"y", "x">> /\ CardColumns(out) = <<"y", "x">>
    /\ \A key \in {"bar", "line", "hist", "pie"} : Shown("plotly_chart", key)
    /\ Shown("dataframe", "describe")
    /\ parses["bad.xlsx"] > 0

\* C7 (as claimed): with numeric columns, a run that does not fail renders
\* the KPI cards, the four chart panels (bar, line, histogram, pie) and the
\* summary table, in this order, after the metrics.
C7_Original ==
    /\ ~Uploaded => out = Header \o Instructions
    /\ InSequence
    /\ Parsed =>
           \A m \in {"Total Rows", "Total Columns", "Numeric Columns"} :
               Shown("metric", m)
    /\ Parsed /\ ErrorsIn(out) = {} /\ NumericInput # {} =>
           /\ CardColumns(out) = widgets.kpi.val
           /\ \A key \in {"bar", "line", "hist", "pie"} :
                  Shown("plotly_chart", key)
           /\ Shown("dataframe", "describe")
    /\ out = Alone(uploaded_file, widgets)

----------------------------------------------------------------------------
\* C8: the numeric columns and the text columns the run works with are
\* disjoint sets of columns of the table; a column of another type (a date, a
\* truth value) is in neither, raises no error, is offered by no selector and
\* is absent from the summary statistics, and is counted in Total Columns.

NamesOf(dtypes) == {c.name : c \in {d \in Range(df.columns) : d.dtype \in dtypes}}

\* The options the selectors offer
Offered(keys) == UNION {Range(widgets[k].opts) : k \in {j \in keys : widgets[j].set}}

\* The columns of the summary statistics
Summarised ==
    UNION {{p[i][1] : i \in DOMAIN p} : p \in Payloads("dataframe", "describe")}

OtherColumns ==
    {c.name : c \in Range(df.columns)} \ NamesOf({"int64", "float64", "object"})

C8_SchemaSets ==
    Parsed =>
        LET numeric == Offered({"kpi", "bar", "line", "hist", "pie_val"})
            categorical == Offered({"pie_cat"})
        IN  /\ numeric \cap categorical = {}
            /\ numeric \subseteq NamesOf({"int64", "float64"})
            /\ categorical \subseteq NamesOf({"object"})
            /\ \A k \in {"kpi", "bar", "line", "hist", "pie_val"} :
                   widgets[k].set =>
                       Range(widgets[k].opts) = NamesOf({"int64", "float64"})
            /\ widgets.pie_cat.set =>
                   Range(widgets.pie_cat.opts) = NamesOf({"object"})
            /\ widgets.kpi.set <=> NamesOf({"int64", "float64"}) # {}
            /\ OtherColumns \cap (numeric \cup categorical \cup Summarised) = {}
            /\ Range(widgets.kpi.val) \cap OtherColumns = {}
            /\ Summarised \subseteq NamesOf({"int64", "float64"})
            /\ Input.raises = {} => ErrorsIn(out) = {}
            /\ Payloads("metric", "Total Columns") = {Len(Input.columns)}
            /\ Payloads("metric", "Numeric Columns") =
                   {Cardinality(NamesOf({"int64", "float64"}))}

\* A table with a date column and a truth-value column beside numeric and
\* text columns, every selector and the summary on display
C8_Witness ==
    /\ Parsed /\ ErrorsIn(out) = {}
    /\ OtherColumns = {"when", "flag"}
    /\ \A k \in WidgetKeys : widgets[k].set
    /\ Summarised = {"x", "y"}
    /\ Payloads("metric", "Total Columns") = {6}

====
